---- MODULE Spec2Model ----
(***************************************************************************)
(* Chess clock: the useChessClock hook (src/src/hooks/useChessClock.ts)    *)
(* driven by the controls of ClockScreen and SetupScreen.                  *)
(*                                                                         *)
(* A state of the model is a committed render of the hook: the values of   *)
(* its useState cells and of beepedRef.  Every action is one event (a      *)
(* click, a key press, one firing of the one-second interval) together     *)
(* with the render that commits the state updates the handler queued.      *)
(***************************************************************************)
EXTENDS Integers, FiniteSets, Sequences, TLC

VARIABLES
    settings,      \* useState<Settings>: the saved time control
    setup,         \* useState<Settings>: the content of the setup form
    showSetup,     \* useState: the setup screen is shown instead of the clock
    activePlayer,  \* useState<PlayerKey | null>; null is "none"
    hasStarted,    \* useState<boolean>
    isRunning,     \* useState<boolean>
    times,         \* useState<{p1, p2}>: remaining seconds
    beepedRef,     \* useRef<BeepState>: the one-shot threshold flags
    beeps,         \* the playBeep calls made by the last event
    op,            \* the last event and the hook function it invoked
    fired,         \* per game: threshold playBeep calls so far (saturating)
    run,           \* the ticks since the last other event, and the active
                   \* player's remaining time at that event
    from,          \* the state of the clock before the last event
    muted,         \* useState<boolean>
    theme,         \* settings.theme, which setup.theme always equals
    timer,         \* the interval the effect holds: its player and its phase
    owed,          \* running time that has passed without a tick for it
    stale,         \* the render the handlers still see while one is pending
    script,        \* the position in the scripted game
    stored         \* localStorage under SETTINGS_KEY

vars == <<settings, setup, showSetup, activePlayer, hasStarted, isRunning,
          times, beepedRef, beeps, op, fired, run, from, muted, theme, timer,
          owed, stale, script, stored>>

\* the clock state proper
clockVars == <<activePlayer, hasStarted, isRunning, times, beepedRef>>

----------------------------------------------------------------------------
(* Bounds of the model *)

\* switches that would raise a remaining time more than MaxGain above the
\* player's base time are not taken
MaxGain == 2

\* fired saturates at MaxFired
MaxFired == 2

\* the steps of time in one second
Resolution == 2

\* the seconds under the base time down to which the sessions are followed
MaxSpent == 4

\* the ticks in a row that the scripted game counts
MaxScriptTicks == 11

\* what the user types into the setup form
FormMinutes == {0}
FormP1Seconds == {-1, 10}
FormP2Seconds == {0, 30}
FormIncrements == {-1, 2}

----------------------------------------------------------------------------
(* Types and constants of the hook *)

PlayerKey == {"p1", "p2"}

NoPlayer == "none"

Kinds == {"thirty", "ten"}

ThirtySeconds == 30

TenSeconds == 10

SwitchFrequency == 520

ThirtyFrequency == 460

TenFrequency == 620

MaxMinutes == 999

MaxSeconds == 59

MaxIncrement == 999

defaultSettings_zeroIncrement ==
    [p1Minutes |-> 10, p1Seconds |-> 0, p2Minutes |-> 10, p2Seconds |-> 0,
     increment |-> 0, sameTime |-> TRUE]

defaultSettings ==
    [p1Minutes |-> 10, p1Seconds |-> 0, p2Minutes |-> 10, p2Seconds |-> 0,
     increment |-> 5, sameTime |-> TRUE]

emptyBeepState ==
    [p \in PlayerKey |-> [thirty |-> FALSE, ten |-> FALSE]]

Min(a, b) == IF a <= b THEN a ELSE b

Max(a, b) == IF a >= b THEN a ELSE b

toSeconds(minutes, seconds) == minutes * 60 + seconds

\* the characters of the decimal digits 0 to 9
DigitChars == <<"0", "1", "2", "3", "4", "5", "6", "7", "8", "9">>

\* String(n) of a natural number: its decimal digits, as a sequence of characters
RECURSIVE String(_)
String(n) ==
    IF n < 10
    THEN <<DigitChars[n + 1]>>
    ELSE String(n \div 10) \o <<DigitChars[(n % 10) + 1]>>

\* str.padStart(targetLength, padString), padString one character
RECURSIVE padStart(_, _, _)
padStart(str, targetLength, padString) ==
    IF Len(str) >= targetLength
    THEN str
    ELSE padStart(<<padString>> \o str, targetLength, padString)

\* formatTime with the minutes not taken out of the seconds
formatTime_rawSeconds(totalSeconds) ==
    LET minutes == totalSeconds \div 60
        seconds == totalSeconds
    IN  padStart(String(minutes), 2, "0") \o <<":">> \o padStart(String(seconds), 2, "0")

\* formatTime(totalSeconds): the text shown on a clock face
formatTime(totalSeconds) ==
    LET minutes == totalSeconds \div 60
        seconds == totalSeconds % 60
    IN  padStart(String(minutes), 2, "0") \o <<":">> \o padStart(String(seconds), 2, "0")

\* clampNumber without the upper limit
clampNumber_lowerOnly(value, min, max) == Max(min, value)

clampNumber(value, min, max) == Min(max, Max(min, value))

other(player) == IF player = "p1" THEN "p2" ELSE "p1"

Threshold(kind) == IF kind = "thirty" THEN ThirtySeconds ELSE TenSeconds

Frequency(kind) == IF kind = "thirty" THEN ThirtyFrequency ELSE TenFrequency

\* a call playBeep(frequency) made on behalf of player
Call(frequency, player) == [frequency |-> frequency, player |-> player]

NoEvent == [ui |-> "load", fn |-> "none", player |-> NoPlayer]

Event(ui, fn, player) == [ui |-> ui, fn |-> fn, player |-> player]

emptyFired == [p \in PlayerKey |-> [k \in Kinds |-> 0]]

\* no interval is held
NoTimer == [live |-> FALSE, player |-> NoPlayer, phase |-> 0]

\* the handlers see the current state
NoSnap == [pending |-> FALSE]

\* nothing is stored under SETTINGS_KEY
NoStore == [present |-> FALSE]

\* what JSON.stringify of settings s with theme t leaves under SETTINGS_KEY
Stored(s, t) == [present |-> TRUE, value |-> s, theme |-> t]

\* no scripted game is played
NoScript == [phase |-> "free", first |-> 0, second |-> 0]

----------------------------------------------------------------------------
(* Initial state: first load, nothing in localStorage *)

Init ==
    /\ settings = defaultSettings
    /\ setup = defaultSettings
    /\ showSetup = TRUE
    /\ activePlayer = NoPlayer
    /\ hasStarted = FALSE
    /\ isRunning = FALSE
    /\ times = [p1 |-> toSeconds(defaultSettings.p1Minutes, defaultSettings.p1Seconds),
                p2 |-> toSeconds(defaultSettings.p2Minutes, defaultSettings.p2Seconds)]
    /\ beepedRef = emptyBeepState
    /\ beeps = {}
    /\ op = NoEvent
    /\ fired = emptyFired
    /\ run = [r |-> 0, n |-> 0]
    /\ from = "Idle"
    /\ muted = FALSE
    /\ theme = "light"
    /\ timer = NoTimer
    /\ owed = 0
    /\ stale = NoSnap
    /\ script = NoScript
    /\ stored = NoStore

----------------------------------------------------------------------------
(* The threshold notifier *)

\* maybeBeepAt comparing the value before the decrement with the thresholds
maybeBeepAt_beforeDecrement(b, player, nextTime) ==
    IF nextTime <= 0
    THEN [ref |-> b, calls |-> {}]
    ELSE LET playerState == b[player]
             fire30 == nextTime + 1 = ThirtySeconds /\ ~playerState.thirty
             b30 == IF fire30
                    THEN [b EXCEPT ![player] = [playerState EXCEPT !.thirty = TRUE]]
                    ELSE b
             fire10 == nextTime + 1 = TenSeconds /\ ~playerState.ten
             b10 == IF fire10
                    THEN [b30 EXCEPT ![player] = [playerState EXCEPT !.ten = TRUE]]
                    ELSE b30
         IN  [ref |-> b10,
              calls |-> (IF fire30 THEN {Call(ThirtyFrequency, player)} ELSE {})
                        \cup (IF fire10 THEN {Call(TenFrequency, player)} ELSE {})]

\* maybeBeepAt without the test of the flags
maybeBeepAt_noFlagTest(b, player, nextTime) ==
    IF nextTime <= 0
    THEN [ref |-> b, calls |-> {}]
    ELSE LET playerState == b[player]
             fire30 == nextTime = ThirtySeconds
             b30 == IF fire30
                    THEN [b EXCEPT ![player] = [playerState EXCEPT !.thirty = TRUE]]
                    ELSE b
             fire10 == nextTime = TenSeconds
             b10 == IF fire10
                    THEN [b30 EXCEPT ![player] = [playerState EXCEPT !.ten = TRUE]]
                    ELSE b30
         IN  [ref |-> b10,
              calls |-> (IF fire30 THEN {Call(ThirtyFrequency, player)} ELSE {})
                        \cup (IF fire10 THEN {Call(TenFrequency, player)} ELSE {})]

\* maybeBeepAt setting the ten-second flag on a fresh pair of flags
maybeBeepAt_freshFlags(b, player, nextTime) ==
    IF nextTime <= 0
    THEN [ref |-> b, calls |-> {}]
    ELSE LET playerState == b[player]
             fire30 == nextTime = ThirtySeconds /\ ~playerState.thirty
             b30 == IF fire30
                    THEN [b EXCEPT ![player] = [playerState EXCEPT !.thirty = TRUE]]
                    ELSE b
             fire10 == nextTime = TenSeconds /\ ~playerState.ten
             b10 == IF fire10
                    THEN [b30 EXCEPT ![player] = [thirty |-> FALSE, ten |-> TRUE]]
                    ELSE b30
         IN  [ref |-> b10,
              calls |-> (IF fire30 THEN {Call(ThirtyFrequency, player)} ELSE {})
                        \cup (IF fire10 THEN {Call(TenFrequency, player)} ELSE {})]

\* maybeBeepAt(player, nextTime) on flags b: the new flags and the playBeep calls
maybeBeepAt(b, player, nextTime) ==
    IF nextTime <= 0
    THEN [ref |-> b, calls |-> {}]
    ELSE LET playerState == b[player]
             fire30 == nextTime = ThirtySeconds /\ ~playerState.thirty
             b30 == IF fire30
                    THEN [b EXCEPT ![player] = [playerState EXCEPT !.thirty = TRUE]]
                    ELSE b
             fire10 == nextTime = TenSeconds /\ ~playerState.ten
             b10 == IF fire10
                    THEN [b30 EXCEPT ![player] = [playerState EXCEPT !.ten = TRUE]]
                    ELSE b30
         IN  [ref |-> b10,
              calls |-> (IF fire30 THEN {Call(ThirtyFrequency, player)} ELSE {})
                        \cup (IF fire10 THEN {Call(TenFrequency, player)} ELSE {})]

\* the per-game count of threshold calls, after the calls of one event
Count(f, calls) ==
    [p \in PlayerKey |-> [k \in Kinds |->
        IF Call(Frequency(k), p) \in calls THEN Min(MaxFired, f[p][k] + 1) ELSE f[p][k]]]

----------------------------------------------------------------------------
(* The functions of the hook.  Each is the whole handler: it says what the *)
(* clock state and the playBeep calls are after it returns.                *)

\* resetBeeps
resetBeeps == beepedRef' = emptyBeepState

\* startFrom starting the clock of the opponent of player
startFrom_opponent(player) ==
    IF times.p1 = 0 /\ times.p2 = 0
    THEN UNCHANGED <<activePlayer, hasStarted, isRunning>>
    ELSE /\ activePlayer' = other(player)
         /\ hasStarted' = TRUE
         /\ isRunning' = TRUE

\* startFrom(player)
startFrom(player) ==
    IF times.p1 = 0 /\ times.p2 = 0
    THEN UNCHANGED <<activePlayer, hasStarted, isRunning>>
    ELSE /\ activePlayer' = player
         /\ hasStarted' = TRUE
         /\ isRunning' = TRUE

\* switchReturnsEarly without the test of isRunning
switchReturnsEarly_noRunningTest ==
    \/ ~hasStarted
    \/ activePlayer = NoPlayer
    \/ (activePlayer = "p1" /\ times.p1 = 0)
    \/ (activePlayer = "p2" /\ times.p2 = 0)

\* the guards of handleSwitch: TRUE when it returns early
switchReturnsEarly ==
    \/ ~isRunning
    \/ ~hasStarted
    \/ activePlayer = NoPlayer
    \/ (activePlayer = "p1" /\ times.p1 = 0)
    \/ (activePlayer = "p2" /\ times.p2 = 0)

\* handleSwitch crediting the increment to the player who becomes active
handleSwitch_creditOther ==
    IF \/ ~isRunning
       \/ ~hasStarted
       \/ activePlayer = NoPlayer
       \/ (activePlayer = "p1" /\ times.p1 = 0)
       \/ (activePlayer = "p2" /\ times.p2 = 0)
    THEN /\ UNCHANGED <<times, activePlayer>>
         /\ beeps' = {}
    ELSE /\ times' = [times EXCEPT ![other(activePlayer)] = @ + settings.increment]
         /\ activePlayer' = other(activePlayer)
         /\ beeps' = {Call(SwitchFrequency, activePlayer)}

\* handleSwitch calling playBeep before its guards
handleSwitch_beepFirst ==
    IF switchReturnsEarly
    THEN /\ UNCHANGED <<times, activePlayer>>
         /\ beeps' = {Call(SwitchFrequency, activePlayer)}
    ELSE /\ times' = [times EXCEPT ![activePlayer] = @ + settings.increment]
         /\ activePlayer' = other(activePlayer)
         /\ beeps' = {Call(SwitchFrequency, activePlayer)}

\* handleSwitch
handleSwitch ==
    IF switchReturnsEarly
    THEN /\ UNCHANGED <<times, activePlayer>>
         /\ beeps' = {}
    ELSE /\ times' = [times EXCEPT ![activePlayer] = @ + settings.increment]
         /\ activePlayer' = other(activePlayer)
         /\ beeps' = {Call(SwitchFrequency, activePlayer)}

\* toggleRunning that can pause but not resume
toggleRunning_pauseOnly ==
    IF \/ ~hasStarted
       \/ activePlayer = NoPlayer
       \/ (activePlayer = "p1" /\ times.p1 = 0)
       \/ (activePlayer = "p2" /\ times.p2 = 0)
    THEN UNCHANGED isRunning
    ELSE isRunning' = FALSE

\* toggleRunning
toggleRunning ==
    IF \/ ~hasStarted
       \/ activePlayer = NoPlayer
       \/ (activePlayer = "p1" /\ times.p1 = 0)
       \/ (activePlayer = "p2" /\ times.p2 = 0)
    THEN UNCHANGED isRunning
    ELSE isRunning' = ~isRunning

\* resetClock without the call of resetBeeps
resetClock_keepBeeps ==
    /\ times' = [p1 |-> toSeconds(settings.p1Minutes, settings.p1Seconds),
                 p2 |-> toSeconds(settings.p2Minutes, settings.p2Seconds)]
    /\ activePlayer' = NoPlayer
    /\ hasStarted' = FALSE
    /\ isRunning' = FALSE
    /\ UNCHANGED beepedRef

\* resetClock
resetClock ==
    /\ times' = [p1 |-> toSeconds(settings.p1Minutes, settings.p1Seconds),
                 p2 |-> toSeconds(settings.p2Minutes, settings.p2Seconds)]
    /\ activePlayer' = NoPlayer
    /\ hasStarted' = FALSE
    /\ isRunning' = FALSE
    /\ resetBeeps

\* normalize without the copy that sameTime asks for
normalize_noCopy(form) ==
    [p1Minutes |-> clampNumber(form.p1Minutes, 0, MaxMinutes),
     p1Seconds |-> clampNumber(form.p1Seconds, 0, MaxSeconds),
     p2Minutes |-> clampNumber(form.p2Minutes, 0, MaxMinutes),
     p2Seconds |-> clampNumber(form.p2Seconds, 0, MaxSeconds),
     increment |-> clampNumber(form.increment, 0, MaxIncrement),
     sameTime |-> form.sameTime]

\* the Settings that handleSaveSetup saves for the form content form
normalize(form) ==
    LET clamped == [p1Minutes |-> clampNumber(form.p1Minutes, 0, MaxMinutes),
                    p1Seconds |-> clampNumber(form.p1Seconds, 0, MaxSeconds),
                    p2Minutes |-> clampNumber(form.p2Minutes, 0, MaxMinutes),
                    p2Seconds |-> clampNumber(form.p2Seconds, 0, MaxSeconds),
                    increment |-> clampNumber(form.increment, 0, MaxIncrement),
                    sameTime |-> form.sameTime]
    IN  IF clamped.sameTime
        THEN [clamped EXCEPT !.p2Minutes = clamped.p1Minutes,
                             !.p2Seconds = clamped.p1Seconds]
        ELSE clamped

\* handleSaveSetup leaving the game in progress as it is
handleSaveSetup_keepGame(form) ==
    LET normalized == normalize(form)
    IN  /\ settings' = normalized
        /\ setup' = normalized
        /\ times' = [p1 |-> toSeconds(normalized.p1Minutes, normalized.p1Seconds),
                     p2 |-> toSeconds(normalized.p2Minutes, normalized.p2Seconds)]
        /\ UNCHANGED <<activePlayer, hasStarted>>
        /\ isRunning' = FALSE
        /\ stored' = Stored(normalized, theme)
        /\ resetBeeps
        /\ showSetup' = FALSE

\* handleSaveSetup, the form holding form
handleSaveSetup(form) ==
    LET normalized == normalize(form)
    IN  /\ settings' = normalized
        /\ setup' = normalized
        /\ times' = [p1 |-> toSeconds(normalized.p1Minutes, normalized.p1Seconds),
                     p2 |-> toSeconds(normalized.p2Minutes, normalized.p2Seconds)]
        /\ activePlayer' = NoPlayer
        /\ hasStarted' = FALSE
        /\ isRunning' = FALSE
        /\ stored' = Stored(normalized, theme)
        /\ resetBeeps
        /\ showSetup' = FALSE

\* openSetup leaving the clock running
openSetup_keepRunning ==
    /\ UNCHANGED isRunning
    /\ setup' = settings
    /\ showSetup' = TRUE

\* openSetup
openSetup ==
    /\ isRunning' = FALSE
    /\ setup' = settings
    /\ showSetup' = TRUE

----------------------------------------------------------------------------
(* Derived conditions of ClockScreen *)

gameOver ==
    hasStarted /\ ((activePlayer = "p1" /\ times.p1 = 0) \/ (activePlayer = "p2" /\ times.p2 = 0))

\* canSwitch without the test of the player
canSwitch_anyFace(player) == hasStarted /\ activePlayer # NoPlayer /\ isRunning

canSwitch(player) == hasStarted /\ activePlayer = player /\ isRunning

canStart == ~hasStarted /\ (times.p1 > 0 \/ times.p2 > 0)

\* the configured base time of player
baseTime(player) ==
    IF player = "p1"
    THEN toSeconds(settings.p1Minutes, settings.p1Seconds)
    ELSE toSeconds(settings.p2Minutes, settings.p2Seconds)

\* the switch the event would make stays within the bound of the model
WithinBound ==
    IF switchReturnsEarly
    THEN TRUE
    ELSE times[activePlayer] + settings.increment <= baseTime(activePlayer) + MaxGain

----------------------------------------------------------------------------
(* The states of the clock *)

activeTime == IF activePlayer = NoPlayer THEN 0 ELSE times[activePlayer]

Idle == ~hasStarted

Active == hasStarted /\ isRunning /\ activePlayer # NoPlayer /\ activeTime > 0

Paused == hasStarted /\ ~isRunning /\ activePlayer # NoPlayer /\ activeTime > 0

Expired == hasStarted /\ ~isRunning /\ activePlayer # NoPlayer /\ activeTime = 0

\* the name of the state of the clock
StateKind ==
    IF Idle THEN "Idle"
    ELSE IF Active THEN "Active"
    ELSE IF Paused THEN "Paused"
    ELSE IF Expired THEN "Expired"
    ELSE "RunningAtZero"

----------------------------------------------------------------------------
(* Events *)

\* an event of the user: the run of ticks starts again
RunRestarts ==
    run' = [r |-> IF activePlayer' = NoPlayer THEN 0 ELSE times'[activePlayer'],
            n |-> 0]

\* the setup form as the user has filled it in
Forms ==
    [p1Minutes : FormMinutes, p1Seconds : FormP1Seconds,
     p2Minutes : FormMinutes, p2Seconds : FormP2Seconds,
     increment : FormIncrements, sameTime : BOOLEAN]

\* SetupScreen: the fields are edited, then "Save & Start" is clicked
SaveButtonClick ==
    /\ showSetup
    /\ \E form \in Forms : handleSaveSetup(form)
    /\ beeps' = {}
    /\ fired' = emptyFired
    /\ op' = Event("save", "handleSaveSetup", NoPlayer)
    /\ RunRestarts

\* ClockScreen: the Settings button
SettingsButtonClick ==
    /\ ~showSetup
    /\ openSetup
    /\ beeps' = {}
    /\ op' = Event("settings", "openSetup", NoPlayer)
    /\ UNCHANGED <<settings, stored, activePlayer, hasStarted, times, beepedRef, fired>>
    /\ RunRestarts

\* ClockFaceClick starting the clock whether or not the game has started
ClockFaceClick_alwaysStart(player) ==
    /\ ~showSetup
    /\ IF times.p1 > 0 \/ times.p2 > 0
       THEN /\ activePlayer' = player
            /\ hasStarted' = TRUE
            /\ isRunning' = TRUE
            /\ op' = Event("face", "startFrom", player)
       ELSE /\ op' = Event("face", "none", player)
            /\ UNCHANGED <<activePlayer, hasStarted, isRunning>>
    /\ beeps' = {}
    /\ UNCHANGED <<settings, stored, setup, showSetup, times, beepedRef, fired>>
    /\ RunRestarts

\* ClockFaceClick starting the clock without looking at the remaining times
ClockFaceClick_noZeroTest(player) ==
    /\ ~showSetup
    /\ IF ~hasStarted
       THEN /\ activePlayer' = player
            /\ hasStarted' = TRUE
            /\ isRunning' = TRUE
            /\ beeps' = {}
            /\ op' = Event("face", "startFrom", player)
            /\ UNCHANGED times
       ELSE IF hasStarted /\ activePlayer = player /\ isRunning
            THEN /\ IF \/ (activePlayer = "p1" /\ times.p1 = 0)
                       \/ (activePlayer = "p2" /\ times.p2 = 0)
                    THEN /\ UNCHANGED <<times, activePlayer>>
                         /\ beeps' = {}
                    ELSE /\ times[activePlayer] + settings.increment
                               <= (IF activePlayer = "p1"
                                   THEN toSeconds(settings.p1Minutes, settings.p1Seconds)
                                   ELSE toSeconds(settings.p2Minutes, settings.p2Seconds))
                                  + MaxGain
                         /\ times' = [times EXCEPT ![activePlayer] = @ + settings.increment]
                         /\ activePlayer' = other(activePlayer)
                         /\ beeps' = {Call(SwitchFrequency, activePlayer)}
                 /\ op' = Event("face", "handleSwitch", player)
                 /\ UNCHANGED <<hasStarted, isRunning>>
            ELSE /\ op' = Event("face", "none", player)
                 /\ beeps' = {}
                 /\ UNCHANGED <<activePlayer, hasStarted, isRunning, times>>
    /\ UNCHANGED <<settings, stored, setup, showSetup, beepedRef, fired>>
    /\ RunRestarts

\* ClockScreen: a click on the clock face of player
\*   onClick = !hasStarted ? () => onStartFrom(player) : canSwitch ? onSwitch : undefined
\*   disabled = !hasStarted ? !canStart : !canSwitch
ClockFaceClick(player) ==
    /\ ~showSetup
    /\ IF ~hasStarted
       THEN IF canStart
            THEN /\ startFrom(player)
                 /\ beeps' = {}
                 /\ op' = Event("face", "startFrom", player)
                 /\ UNCHANGED times
            ELSE /\ op' = Event("face", "none", player)
                 /\ beeps' = {}
                 /\ UNCHANGED <<activePlayer, hasStarted, isRunning, times>>
       ELSE IF canSwitch(player)
            THEN /\ WithinBound
                 /\ handleSwitch
                 /\ op' = Event("face", "handleSwitch", player)
                 /\ UNCHANGED <<hasStarted, isRunning>>
            ELSE /\ op' = Event("face", "none", player)
                 /\ beeps' = {}
                 /\ UNCHANGED <<activePlayer, hasStarted, isRunning, times>>
    /\ UNCHANGED <<settings, stored, setup, showSetup, beepedRef, fired>>
    /\ RunRestarts

\* window keydown listener: Space
onKeyDown ==
    /\ handleSwitch
    /\ op' = Event("space", "handleSwitch", NoPlayer)
    /\ UNCHANGED <<settings, stored, setup, showSetup, hasStarted, isRunning, beepedRef,
                   fired>>
    /\ RunRestarts

\* Space is pressed
OnKeyDownSpace ==
    /\ WithinBound
    /\ onKeyDown

\* ClockScreen: the primary button (New Game / Pause / Resume), shown once started
\*   onClick = gameOver ? onReset : onToggleRunning
PrimaryButtonClick ==
    /\ ~showSetup
    /\ hasStarted
    /\ IF gameOver
       THEN /\ resetClock
            /\ fired' = emptyFired
            /\ op' = Event("primary", "resetClock", NoPlayer)
       ELSE /\ toggleRunning
            /\ op' = Event("primary", "toggleRunning", NoPlayer)
            /\ UNCHANGED <<activePlayer, hasStarted, times, beepedRef, fired>>
    /\ beeps' = {}
    /\ UNCHANGED <<settings, stored, setup, showSetup>>
    /\ RunRestarts

\* ClockScreen: the Reset button, shown once started
ResetButtonClick ==
    /\ ~showSetup
    /\ hasStarted
    /\ resetClock
    /\ fired' = emptyFired
    /\ beeps' = {}
    /\ op' = Event("reset", "resetClock", NoPlayer)
    /\ UNCHANGED <<settings, stored, setup, showSetup>>
    /\ RunRestarts

\* nextTimeOf taking two seconds off
nextTimeOf_byTwo(current) == Max(0, current - 2)

\* the remaining time after one tick
nextTimeOf(current) == Max(0, current - 1)

\* reachedZero stopping the clock one second early
reachedZero_early(nextTime) == nextTime <= 1

\* the tick stops the clock
reachedZero(nextTime) == nextTime = 0

\* the callback of the interval created while player was the active player
intervalCallback(player) ==
    /\ LET current == IF player = "p1" THEN times.p1 ELSE times.p2
           nextTime == nextTimeOf(current)
           beep == maybeBeepAt(beepedRef, player, nextTime)
       IN  /\ beepedRef' = beep.ref
           /\ beeps' = beep.calls
           /\ fired' = Count(fired, beep.calls)
           /\ isRunning' = IF reachedZero(nextTime) THEN FALSE ELSE isRunning
           /\ times' = IF player = "p1"
                       THEN [times EXCEPT !.p1 = nextTime]
                       ELSE [times EXCEPT !.p2 = nextTime]
    /\ op' = Event("interval", "tick", player)
    /\ run' = [run EXCEPT !.n = @ + 1]
    /\ UNCHANGED <<settings, stored, setup, showSetup, activePlayer, hasStarted>>

\* one firing of the interval that the effect keeps while isRunning and activePlayer
Tick ==
    /\ isRunning
    /\ activePlayer # NoPlayer
    /\ intervalCallback(activePlayer)

\* the event is rendered at once; preferences, timing and script play no part
Plain ==
    /\ from' = StateKind
    /\ UNCHANGED <<muted, theme, timer, owed, stale, script>>

Next ==
    \/ SaveButtonClick /\ Plain
    \/ SettingsButtonClick /\ Plain
    \/ \E player \in PlayerKey : ClockFaceClick(player) /\ Plain
    \/ OnKeyDownSpace /\ Plain
    \/ PrimaryButtonClick /\ Plain
    \/ ResetButtonClick /\ Plain
    \/ Tick /\ Plain

Spec == Init /\ [][Next]_vars

----------------------------------------------------------------------------
(* A scripted game: player 1 starts, lets time pass, presses Space, player  *)
(* 2 presses Space at once, and player 1 lets time pass again.              *)

\* the time controls of the scripted game: 40 seconds each, increment 10 or none
ScenarioForms ==
    [p1Minutes : {0}, p1Seconds : {40}, p2Minutes : {0}, p2Seconds : {0},
     increment : {0, 10}, sameTime : {TRUE}]

\* the clock screen right after Save & Start of a scripted time control
InitScenario ==
    /\ \E form \in ScenarioForms :
         /\ settings = normalize(form)
         /\ stored = Stored(normalize(form), "light")
         /\ setup = normalize(form)
         /\ times = [p1 |-> toSeconds(normalize(form).p1Minutes, normalize(form).p1Seconds),
                     p2 |-> toSeconds(normalize(form).p2Minutes, normalize(form).p2Seconds)]
    /\ showSetup = FALSE
    /\ activePlayer = NoPlayer
    /\ hasStarted = FALSE
    /\ isRunning = FALSE
    /\ beepedRef = emptyBeepState
    /\ beeps = {}
    /\ op = Event("save", "handleSaveSetup", NoPlayer)
    /\ fired = emptyFired
    /\ run = [r |-> 0, n |-> 0]
    /\ from = "Idle"
    /\ muted = FALSE
    /\ theme = "light"
    /\ timer = NoTimer
    /\ owed = 0
    /\ stale = NoSnap
    /\ script = [phase |-> "idle", first |-> 0, second |-> 0]

\* player 1's clock face is clicked
ScriptStart ==
    /\ script.phase = "idle"
    /\ ClockFaceClick("p1")
    /\ script' = [script EXCEPT !.phase = "first"]
    /\ from' = StateKind
    /\ UNCHANGED <<muted, theme, timer, owed, stale>>

\* a second passes on player 1's clock
ScriptTick ==
    /\ \/ /\ script.phase = "first"
          /\ script.first < MaxScriptTicks
          /\ script' = [script EXCEPT !.first = @ + 1]
       \/ /\ script.phase = "second"
          /\ script.second < MaxScriptTicks
          /\ script' = [script EXCEPT !.second = @ + 1]
    /\ Tick
    /\ from' = StateKind
    /\ UNCHANGED <<muted, theme, timer, owed, stale>>

\* Space is pressed: by player 1 after the first ticks, by player 2 at once
ScriptSwitch ==
    /\ \/ script.phase = "first" /\ script' = [script EXCEPT !.phase = "away"]
       \/ script.phase = "away" /\ script' = [script EXCEPT !.phase = "second"]
    /\ onKeyDown
    /\ from' = StateKind
    /\ UNCHANGED <<muted, theme, timer, owed, stale>>

NextScenario ==
    \/ ScriptStart
    \/ ScriptTick
    \/ ScriptSwitch

SpecScenario == InitScenario /\ [][NextScenario]_vars

----------------------------------------------------------------------------
(* The clock in time.  A second is Resolution steps of time; timer is the   *)
(* interval that the tick effect holds: the player its callback has closed  *)
(* over and the time since it was created or last fired.                    *)

\* the tick effect after a render: the interval is cleared and created anew
\* when one of its dependencies has changed (activePlayer, isRunning, or
\* playBeep, which is made anew when muted changes), and kept otherwise
tickEffect(t) ==
    IF activePlayer' = activePlayer /\ isRunning' = isRunning /\ muted' = muted
    THEN t
    ELSE IF isRunning' /\ activePlayer' # NoPlayer
         THEN [live |-> TRUE, player |-> activePlayer', phase |-> 0]
         ELSE NoTimer

\* the effects of a render with the cleanup left for later
afterCommit_cleanupLate(t) ==
    IF tickEffect(t).live THEN tickEffect(t) ELSE t

\* the effects of a render run, the cleanup included, before any callback of
\* the interval does
afterCommit(t) == tickEffect(t)

\* an event is rendered and the effects are run
Timed ==
    /\ from' = StateKind
    /\ UNCHANGED <<muted, theme, stale, script>>
    /\ timer' = afterCommit(timer)
    /\ owed' = IF isRunning /\ isRunning' THEN owed ELSE 0

\* a step of time passes while the interval is held
TimePasses ==
    /\ timer.live
    /\ timer.phase < Resolution
    /\ timer' = [timer EXCEPT !.phase = @ + 1]
    /\ owed' = Min(Resolution, owed + 1)
    /\ op' = Event("time", "none", NoPlayer)
    /\ beeps' = {}
    /\ UNCHANGED <<settings, stored, setup, showSetup, activePlayer, hasStarted,
                   isRunning, times, beepedRef, fired, run, from, muted, theme,
                   stale, script>>

\* the interval fires, a second after it was created or last fired
TimerFires ==
    /\ timer.live
    /\ timer.phase = Resolution
    /\ intervalCallback(timer.player)
    /\ from' = StateKind
    /\ UNCHANGED <<muted, theme, stale, script>>
    /\ timer' = afterCommit([timer EXCEPT !.phase = 0])
    /\ owed' = IF isRunning /\ isRunning' THEN Max(0, owed - Resolution) ELSE 0

NextTime ==
    \/ SaveButtonClick /\ Timed
    \/ SettingsButtonClick /\ Timed
    \/ \E player \in PlayerKey : ClockFaceClick(player) /\ Timed
    \/ OnKeyDownSpace /\ Timed
    \/ PrimaryButtonClick /\ Timed
    \/ ResetButtonClick /\ Timed
    \/ TimePasses
    \/ TimerFires

SpecTime == Init /\ [][NextTime]_vars

----------------------------------------------------------------------------
(* The clock with the render that follows a tick as a step of its own.  The *)
(* interval callback queues its updates; until they are rendered the        *)
(* keydown listener holds the handleSwitch of the previous render, which    *)
(* tests that render's isRunning, hasStarted, activePlayer and times, while *)
(* its updaters run on the queued state.  Of the events that can arrive in  *)
(* between, the model has the press of Space.                               *)

\* what the handlers of the current render have closed over
snapshot ==
    [pending |-> TRUE, times |-> times, isRunning |-> isRunning,
     hasStarted |-> hasStarted, activePlayer |-> activePlayer]

\* handleSwitch as created by the render closure
handleSwitchIn(closure) ==
    IF \/ ~closure.isRunning
       \/ ~closure.hasStarted
       \/ closure.activePlayer = NoPlayer
       \/ (closure.activePlayer = "p1" /\ closure.times.p1 = 0)
       \/ (closure.activePlayer = "p2" /\ closure.times.p2 = 0)
    THEN /\ UNCHANGED <<times, activePlayer>>
         /\ beeps' = {}
    ELSE /\ times' = [times EXCEPT ![closure.activePlayer] = @ + settings.increment]
         /\ activePlayer' = other(activePlayer)
         /\ beeps' = {Call(SwitchFrequency, closure.activePlayer)}

\* the interval fires: its updates are queued, the render is still to come
IntervalFires ==
    /\ ~stale.pending
    /\ Tick
    /\ stale' = snapshot
    /\ from' = StateKind
    /\ UNCHANGED <<muted, theme, timer, owed, script>>

\* the queued updates are rendered
Render ==
    /\ stale.pending
    /\ stale' = NoSnap
    /\ UNCHANGED <<settings, stored, setup, showSetup, activePlayer, hasStarted,
                   isRunning, times, beepedRef, beeps, op, fired, run, from,
                   muted, theme, timer, owed, script>>

\* Space is pressed before the render: the listener runs the previous
\* render's handleSwitch, then everything queued is rendered
StaleKeyDown ==
    /\ stale.pending
    /\ times[stale.activePlayer] + settings.increment
           <= baseTime(stale.activePlayer) + MaxGain
    /\ handleSwitchIn(stale)
    /\ op' = Event("space", "handleSwitch", NoPlayer)
    /\ stale' = NoSnap
    /\ from' = StateKind
    /\ UNCHANGED <<settings, stored, setup, showSetup, hasStarted, isRunning, beepedRef,
                   fired, muted, theme, timer, owed, script>>
    /\ RunRestarts

NextRace ==
    \/ ~stale.pending /\ SaveButtonClick /\ Plain
    \/ ~stale.pending /\ SettingsButtonClick /\ Plain
    \/ \E player \in PlayerKey : ~stale.pending /\ ClockFaceClick(player) /\ Plain
    \/ ~stale.pending /\ OnKeyDownSpace /\ Plain
    \/ ~stale.pending /\ PrimaryButtonClick /\ Plain
    \/ ~stale.pending /\ ResetButtonClick /\ Plain
    \/ IntervalFires
    \/ Render
    \/ StaleKeyDown

SpecRace == Init /\ [][NextRace]_vars

----------------------------------------------------------------------------
(* The clock with its preferences: the Mute button and the theme button *)

\* ClockScreen: the Mute / Unmute button
MuteButtonClick ==
    /\ ~showSetup
    /\ muted' = ~muted
    /\ beeps' = {}
    /\ op' = Event("mute", "setMuted", NoPlayer)
    /\ from' = StateKind
    /\ UNCHANGED <<settings, stored, setup, showSetup, activePlayer, hasStarted,
                   isRunning, times, beepedRef, fired, theme, timer, owed,
                   stale, script>>
    /\ RunRestarts

\* the Mute / Unmute button while the clock is followed in time: the render
\* gives playBeep a new identity and the effects are run
MuteButtonClickInTime ==
    /\ ~showSetup
    /\ muted' = ~muted
    /\ beeps' = {}
    /\ op' = Event("mute", "setMuted", NoPlayer)
    /\ from' = StateKind
    /\ UNCHANGED <<settings, stored, setup, showSetup, activePlayer, hasStarted,
                   isRunning, times, beepedRef, fired, theme, owed, stale, script>>
    /\ timer' = afterCommit(timer)
    /\ RunRestarts

NextTimeMute ==
    \/ SaveButtonClick /\ Timed
    \/ SettingsButtonClick /\ Timed
    \/ \E player \in PlayerKey : ClockFaceClick(player) /\ Timed
    \/ OnKeyDownSpace /\ Timed
    \/ PrimaryButtonClick /\ Timed
    \/ ResetButtonClick /\ Timed
    \/ MuteButtonClickInTime
    \/ TimePasses
    \/ TimerFires

SpecTimeMute == Init /\ [][NextTimeMute]_vars

\* the Theme button building the new settings from defaultSettings
ThemeButtonClick_fromDefaults ==
    /\ showSetup
    /\ theme' = IF theme = "dark" THEN "light" ELSE "dark"
    /\ settings' = defaultSettings
    /\ stored' = Stored(defaultSettings, theme')
    /\ beeps' = {}
    /\ op' = Event("theme", "setTheme", NoPlayer)
    /\ from' = StateKind
    /\ UNCHANGED <<setup, showSetup, activePlayer, hasStarted,
                   isRunning, times, beepedRef, fired, muted, timer, owed,
                   stale, script>>
    /\ RunRestarts

\* SetupScreen: the Theme button
ThemeButtonClick ==
    /\ showSetup
    /\ theme' = IF theme = "dark" THEN "light" ELSE "dark"
    /\ beeps' = {}
    /\ stored' = Stored(settings, theme')
    /\ op' = Event("theme", "setTheme", NoPlayer)
    /\ from' = StateKind
    /\ UNCHANGED <<settings, setup, showSetup, activePlayer, hasStarted,
                   isRunning, times, beepedRef, fired, muted, timer, owed,
                   stale, script>>
    /\ RunRestarts

NextPrefs ==
    \/ SaveButtonClick /\ Plain
    \/ SettingsButtonClick /\ Plain
    \/ \E player \in PlayerKey : ClockFaceClick(player) /\ Plain
    \/ OnKeyDownSpace /\ Plain
    \/ PrimaryButtonClick /\ Plain
    \/ ResetButtonClick /\ Plain
    \/ Tick /\ Plain
    \/ MuteButtonClick
    \/ ThemeButtonClick

SpecPrefs == Init /\ [][NextPrefs]_vars

----------------------------------------------------------------------------
(* The setup form with its fields edited one save at a time: setup holds    *)
(* what the user has typed, as typed, until Save & Start normalizes it.     *)

\* what the user types: values below, within and above the limits
TypedForms ==
    [p1Minutes : {-1, 1000}, p1Seconds : {-1, 7, 60},
     p2Minutes : {-1, 1000}, p2Seconds : {-1, 7, 60},
     increment : {-1, 3, 1000}, sameTime : BOOLEAN]

\* SetupScreen: the fields are edited (onSetupChange)
EditForm ==
    /\ showSetup
    /\ \E form \in TypedForms : setup' = form
    /\ beeps' = {}
    /\ op' = Event("edit", "setSetup", NoPlayer)
    /\ UNCHANGED <<settings, stored, showSetup, activePlayer, hasStarted,
                   isRunning, times, beepedRef, fired>>
    /\ RunRestarts

\* SetupScreen: "Save & Start" is clicked on the form as it stands
SaveTypedForm ==
    /\ showSetup
    /\ handleSaveSetup(setup)
    /\ beeps' = {}
    /\ fired' = emptyFired
    /\ op' = Event("save", "handleSaveSetup", NoPlayer)
    /\ RunRestarts

NextSetup ==
    \/ EditForm /\ Plain
    \/ SaveTypedForm /\ Plain
    \/ SettingsButtonClick /\ Plain

SpecSetup == Init /\ [][NextSetup]_vars

----------------------------------------------------------------------------
(* The clock left alone: at some moment the users stop issuing commands and *)
(* only the interval goes on firing, once a second for as long as it is     *)
(* held.                                                                    *)

\* the users have issued their last command
Unattended == script.phase = "left"

\* the users issue no further command; the ticks are counted from here
Leave ==
    /\ script.phase = "free"
    /\ script' = [script EXCEPT !.phase = "left"]
    /\ op' = Event("leave", "none", NoPlayer)
    /\ beeps' = {}
    /\ run' = [r |-> activeTime, n |-> 0]
    /\ UNCHANGED <<settings, stored, setup, showSetup, activePlayer, hasStarted,
                   isRunning, times, beepedRef, fired, from, muted, theme,
                   timer, owed, stale>>

NextAlone ==
    \/ ~Unattended /\ SaveButtonClick /\ Plain
    \/ ~Unattended /\ SettingsButtonClick /\ Plain
    \/ \E player \in PlayerKey : ~Unattended /\ ClockFaceClick(player) /\ Plain
    \/ ~Unattended /\ OnKeyDownSpace /\ Plain
    \/ ~Unattended /\ PrimaryButtonClick /\ Plain
    \/ ~Unattended /\ ResetButtonClick /\ Plain
    \/ Tick /\ Plain
    \/ Leave

\* setInterval calls its callback every second while the interval is held
SpecAlone == Init /\ [][NextAlone]_vars /\ WF_vars(Tick /\ Plain)

----------------------------------------------------------------------------
(* The clock over sessions: what is left under SETTINGS_KEY, and the page   *)
(* loaded again.  The games are followed for the first MaxSpent seconds of  *)
(* a clock.                                                                 *)

\* normalizeSettings without the spread of the stored value
normalizeSettings_defaultsOnly(parsed) == defaultSettings

\* normalizeSettings(parsed), but for the theme: the fields of the stored
\* value over those of defaultSettings
normalizeSettings(parsed) ==
    IF parsed.present
    THEN [k \in DOMAIN defaultSettings |->
              IF k \in DOMAIN parsed.value THEN parsed.value[k] ELSE defaultSettings[k]]
    ELSE defaultSettings

\* the theme of normalizeSettings(parsed), nothing being under the legacy key
themeOf(parsed) ==
    IF parsed.present /\ parsed.theme \in {"dark", "light"}
    THEN parsed.theme
    ELSE "light"

\* the page is loaded again: the initial state of every useState and useRef
Reload ==
    /\ settings' = normalizeSettings(stored)
    /\ setup' = normalizeSettings(stored)
    /\ theme' = themeOf(stored)
    /\ showSetup' = ~stored.present
    /\ activePlayer' = NoPlayer
    /\ hasStarted' = FALSE
    /\ isRunning' = FALSE
    /\ times' = [p1 |-> toSeconds(normalizeSettings(stored).p1Minutes,
                                   normalizeSettings(stored).p1Seconds),
                 p2 |-> toSeconds(normalizeSettings(stored).p2Minutes,
                                   normalizeSettings(stored).p2Seconds)]
    /\ beepedRef' = emptyBeepState
    /\ beeps' = {}
    /\ fired' = emptyFired
    /\ op' = Event("reload", "useChessClock", NoPlayer)
    /\ from' = StateKind
    /\ UNCHANGED <<stored, muted, timer, owed, stale, script>>
    /\ RunRestarts

\* the setup form with the times edited and the increment edited or left
\* as the form shows it
SessionForms ==
    [p1Minutes : {0}, p1Seconds : {3}, p2Minutes : {0}, p2Seconds : {30},
     increment : {setup.increment, 2}, sameTime : BOOLEAN]

\* SetupScreen: "Save & Start" on such a form
SessionSave ==
    /\ showSetup
    /\ \E form \in SessionForms : handleSaveSetup(form)
    /\ beeps' = {}
    /\ fired' = emptyFired
    /\ op' = Event("save", "handleSaveSetup", NoPlayer)
    /\ RunRestarts

\* a tick within the seconds that are followed
SessionTick ==
    /\ activePlayer # NoPlayer
    /\ baseTime(activePlayer) - times[activePlayer] < MaxSpent
    /\ Tick

NextSession ==
    \/ SessionSave /\ Plain
    \/ ThemeButtonClick
    \/ SettingsButtonClick /\ Plain
    \/ \E player \in PlayerKey : ClockFaceClick(player) /\ Plain
    \/ OnKeyDownSpace /\ Plain
    \/ PrimaryButtonClick /\ Plain
    \/ ResetButtonClick /\ Plain
    \/ SessionTick /\ Plain
    \/ Reload

\* what the first load may find under SETTINGS_KEY: nothing, or settings
\* without an increment field (normalizeSettings takes a Partial<Settings>)
FirstStores ==
    {NoStore,
     [present |-> TRUE,
      value |-> [p1Minutes |-> 0, p1Seconds |-> 3, p2Minutes |-> 0,
                 p2Seconds |-> 30, sameTime |-> FALSE],
      theme |-> "light"]}

\* the first load of the page
InitSession ==
    /\ stored \in FirstStores
    /\ settings = normalizeSettings(stored)
    /\ setup = normalizeSettings(stored)
    /\ theme = themeOf(stored)
    /\ showSetup = ~stored.present
    /\ activePlayer = NoPlayer
    /\ hasStarted = FALSE
    /\ isRunning = FALSE
    /\ times = [p1 |-> toSeconds(normalizeSettings(stored).p1Minutes,
                                  normalizeSettings(stored).p1Seconds),
                p2 |-> toSeconds(normalizeSettings(stored).p2Minutes,
                                  normalizeSettings(stored).p2Seconds)]
    /\ beepedRef = emptyBeepState
    /\ beeps = {}
    /\ op = NoEvent
    /\ fired = emptyFired
    /\ run = [r |-> 0, n |-> 0]
    /\ from = "Idle"
    /\ muted = FALSE
    /\ timer = NoTimer
    /\ owed = 0
    /\ stale = NoSnap
    /\ script = NoScript

SpecSession == InitSession /\ [][NextSession]_vars

----------------------------------------------------------------------------
(* The clock faces: a page load finds a saved time control of any minutes   *)
(* and seconds within the limits, and the faces show formatTime of the      *)
(* remaining times, before a game, once it is started and after a reset.    *)

\* what a load may find under SETTINGS_KEY: any time control that Save &
\* Start can have left, the same for both players
ShownStores ==
    {Stored([p1Minutes |-> m, p1Seconds |-> s, p2Minutes |-> m, p2Seconds |-> s,
             increment |-> 0, sameTime |-> TRUE], "light") :
        m \in 0..MaxMinutes, s \in 0..MaxSeconds}

\* the load of the page on a saved time control
InitShown ==
    /\ stored \in ShownStores
    /\ settings = normalizeSettings(stored)
    /\ setup = normalizeSettings(stored)
    /\ theme = themeOf(stored)
    /\ showSetup = ~stored.present
    /\ activePlayer = NoPlayer
    /\ hasStarted = FALSE
    /\ isRunning = FALSE
    /\ times = [p1 |-> toSeconds(normalizeSettings(stored).p1Minutes,
                                  normalizeSettings(stored).p1Seconds),
                p2 |-> toSeconds(normalizeSettings(stored).p2Minutes,
                                  normalizeSettings(stored).p2Seconds)]
    /\ beepedRef = emptyBeepState
    /\ beeps = {}
    /\ op = NoEvent
    /\ fired = emptyFired
    /\ run = [r |-> 0, n |-> 0]
    /\ from = "Idle"
    /\ muted = FALSE
    /\ timer = NoTimer
    /\ owed = 0
    /\ stale = NoSnap
    /\ script = NoScript

NextShown ==
    \/ \E player \in PlayerKey : ClockFaceClick(player) /\ Plain
    \/ ResetButtonClick /\ Plain

SpecShown == InitShown /\ [][NextShown]_vars

----------------------------------------------------------------------------
(* Types *)

TypeOK ==
    /\ showSetup \in BOOLEAN
    /\ hasStarted \in BOOLEAN
    /\ isRunning \in BOOLEAN
    /\ activePlayer \in PlayerKey \cup {NoPlayer}
    /\ times.p1 >= 0 /\ times.p2 >= 0

----------------------------------------------------------------------------
(* Properties *)

\* C1: whenever isRunning holds, the game has started, a player is active
\* and that player's remaining time is positive.
C1_RunningImpliesTimeLeft ==
    isRunning => /\ hasStarted
                 /\ activePlayer \in PlayerKey
                 /\ activeTime > 0

\* C2: a switch made while Active credits exactly the increment to the player
\* who was active and makes the other player active; the other player's
\* time, hasStarted, isRunning and the threshold flags stay as they were.
C2_SwitchCreditsIncrement ==
    [][(op'.fn = "handleSwitch" /\ Active) =>
         /\ times' = [times EXCEPT ![activePlayer] = @ + settings.increment]
         /\ activePlayer' = other(activePlayer)
         /\ hasStarted' = hasStarted
         /\ isRunning' = isRunning
         /\ beepedRef' = beepedRef
         /\ (settings.increment = 0 => times' = times)]_vars

\* a switch has credited a positive increment to p2 and made p1 active
C2_Witness ==
    /\ op.fn = "handleSwitch"
    /\ beeps = {Call(SwitchFrequency, "p2")}
    /\ settings.increment = 2
    /\ activePlayer = "p1"
    /\ times.p2 = 32

C4_TicksCountDown ==
    /\ activePlayer # NoPlayer => times[activePlayer] = Max(0, run.r - run.n)
    /\ op.fn = "tick" => (isRunning <=> times[activePlayer] > 0)

\* ten ticks in a row have taken p1 from 10 to 0
C4_Witness ==
    /\ op.fn = "tick"
    /\ activePlayer = "p1"
    /\ run = [r |-> 10, n |-> 10]
    /\ times.p1 = 0
    /\ ~isRunning

\* C5: in one game each threshold call is made at most once for each player.
C5_ThresholdAtMostOnce ==
    \A p \in PlayerKey : \A k \in Kinds : fired[p][k] <= 1

\* p2 has ticked down to 30 a second time and no call was made
C5_Witness ==
    /\ op = Event("interval", "tick", "p2")
    /\ times.p2 = ThirtySeconds
    /\ beeps = {}
    /\ fired.p2.thirty = 1

\* C6: a threshold call for player p is made in a step exactly when the
\* step is a tick of the active player p that leaves p with exactly the
\* threshold value and p's flag for it was not set; no other event makes one.
C6_ThresholdCallOnlyAtTick ==
    [][\A p \in PlayerKey : \A k \in Kinds :
         (Call(Frequency(k), p) \in beeps') <=>
            /\ op'.fn = "tick"
            /\ activePlayer = p
            /\ times'[p] = Threshold(k)
            /\ ~beepedRef[p][k]]_vars

\* a switch has raised p2's remaining time to exactly 30 and no threshold
\* call was made
C6_Witness ==
    /\ op.fn = "handleSwitch"
    /\ activePlayer = "p1"
    /\ times.p2 = ThirtySeconds
    /\ ~beepedRef.p2.thirty
    /\ beeps = {Call(SwitchFrequency, "p2")}

\* C7: once the game has started, a click on a clock face that is not the
\* running active one changes nothing, so no start happens in a started game.
C7_NoStartOnceStarted ==
    [][(op'.ui = "face" /\ hasStarted /\ ~canSwitch(op'.player)) =>
         /\ op'.fn = "none"
         /\ UNCHANGED <<times, activePlayer, hasStarted, isRunning, beepedRef>>]_vars

\* the waiting player's clock face was clicked while the other clock runs
C7_Witness ==
    /\ op = Event("face", "none", "p2")
    /\ hasStarted
    /\ isRunning
    /\ activePlayer = "p1"

\* C8: while both base times are 0 the clock stays Idle, whatever is clicked.
C8_NoStartAtZero ==
    (toSeconds(settings.p1Minutes, settings.p1Seconds) = 0
        /\ toSeconds(settings.p2Minutes, settings.p2Seconds) = 0) =>
       /\ times = [p1 |-> 0, p2 |-> 0]
       /\ activePlayer = NoPlayer
       /\ ~hasStarted
       /\ ~isRunning
       /\ op.fn \notin {"startFrom", "tick"}

\* a clock face was clicked with both remaining times 0
C8_Witness ==
    /\ op.ui = "face"
    /\ times = [p1 |-> 0, p2 |-> 0]
    /\ ~hasStarted

\* C9: a start makes the clicked player active, sets hasStarted and
\* isRunning, and leaves the remaining times, the time control and the
\* threshold flags as they were.
C9_StartEffect ==
    [][op'.fn = "startFrom" =>
         /\ ~hasStarted
         /\ activePlayer' = op'.player
         /\ hasStarted'
         /\ isRunning'
         /\ UNCHANGED <<times, settings, beepedRef>>]_vars

\* p2's clock face was clicked in Idle and p2 is now the active player
C9_Witness ==
    /\ op = Event("face", "startFrom", "p2")
    /\ activePlayer = "p2"
    /\ hasStarted
    /\ isRunning
    /\ times.p2 > 0

C11_ResetRestoresBase ==
    [][op'.fn = "resetClock" =>
         /\ times' = [p \in PlayerKey |-> baseTime(p)]
         /\ activePlayer' = NoPlayer
         /\ ~hasStarted'
         /\ ~isRunning'
         /\ beepedRef' = emptyBeepState
         /\ settings' = settings]_vars

\* a running game in which time had passed was reset
C11_Witness ==
    /\ op.fn = "resetClock"
    /\ from = "Active"
    /\ times = [p1 |-> 10, p2 |-> 30]
    /\ Idle

\* C12: Save & Start, in whatever state it is issued, installs the time
\* control of the form and leaves the clock Idle on it: the remaining times
\* are the new base times, there is no active player, hasStarted and
\* isRunning are false and all four threshold flags are false.
C12_SaveInstallsTimeControl ==
    [][op'.fn = "handleSaveSetup" =>
         /\ \E form \in Forms : settings' = normalize(form)
         /\ times' = [p \in PlayerKey |-> baseTime(p)']
         /\ activePlayer' = NoPlayer
         /\ ~hasStarted'
         /\ ~isRunning'
         /\ beepedRef' = emptyBeepState]_vars

\* a time control was saved over a game that had ended
C12_Witness ==
    /\ op.fn = "handleSaveSetup"
    /\ from = "Expired"
    /\ Idle
    /\ times = [p1 |-> 0, p2 |-> 30]
    /\ settings.increment = 2

C14_OnlyListedTransitions ==
    [][/\ Idle' \/ Active' \/ Paused' \/ Expired'
       /\ StateKind' # StateKind =>
            \/ op'.fn = "startFrom" /\ Idle /\ Active'
            \/ op'.fn = "toggleRunning" /\ Active /\ Paused'
            \/ op'.fn = "toggleRunning" /\ Paused /\ Active'
            \/ op'.fn = "tick" /\ Active /\ Expired'
            \/ op'.fn \in {"resetClock", "handleSaveSetup"} /\ Idle']_vars

\* C19: a threshold flag that is true stays true through every event,
\* ticks, starts, switches, Pause / Resume, Settings, Mute and Theme
\* included; it becomes false only in a reset or a Save & Start, and those
\* clear all four flags together.
C19_FlagsClearedOnlyTogether ==
    [][\A p \in PlayerKey, k \in Kinds :
         (beepedRef[p][k] /\ ~beepedRef'[p][k]) =>
             /\ op'.fn \in {"resetClock", "handleSaveSetup"}
             /\ beepedRef' = emptyBeepState]_vars

\* the theme was changed on the setup screen opened in a game in which both
\* flags of player 2 are set
C19_Witness ==
    /\ op.fn = "setTheme"
    /\ hasStarted
    /\ beepedRef.p2.thirty
    /\ beepedRef.p2.ten
    /\ muted

\* C20: a tick takes one second, floored at zero, off the active player's
\* remaining time and may stop the clock and set that player's flags; it
\* leaves the other player's time, the active player, hasStarted and the
\* other player's flags as they are.
C20_TickFrame ==
    [][op'.fn = "tick" =>
         /\ times'[activePlayer] = Max(0, times[activePlayer] - 1)
         /\ times'[other(activePlayer)] = times[other(activePlayer)]
         /\ activePlayer' = activePlayer
         /\ hasStarted' = hasStarted
         /\ beepedRef'[other(activePlayer)] = beepedRef[other(activePlayer)]]_vars

\* a tick on player 2's clock while player 1 holds a flag
C20_Witness ==
    /\ op = Event("interval", "tick", "p2")
    /\ beepedRef.p1.ten
    /\ ~beepedRef.p2.thirty
    /\ times.p2 < 30
    /\ times.p1 > 0

\* C18 as stated: after the scripted game with 40 seconds each and increment
\* 10 (start by player 1, 10 ticks, Space, Space, 10 ticks) player 1 has 20
\* seconds left and the thirty-second call for player 1 has been made
\* exactly once.
C18_ScenarioEndsAtTwenty ==
    (/\ script = [phase |-> "second", first |-> 10, second |-> 10]
     /\ settings.increment = 10
     /\ baseTime("p1") = 40
     /\ baseTime("p2") = 40) =>
        (times.p1 = 20 /\ fired.p1.thirty = 1)

\* C18, amended: after the scripted game player 1 has 30 seconds left, the
\* first switch having credited the increment of 10, and the thirty-second
\* call for player 1 has been made exactly once: by the tenth tick of the
\* first run, and not by the tick that brings player 1 to 30 again.
C18_ScenarioEndsAtThirty ==
    /\ (/\ script = [phase |-> "second", first |-> 10, second |-> 10]
        /\ settings.increment = 10
        /\ baseTime("p1") = 40
        /\ baseTime("p2") = 40) =>
           (times.p1 = 30 /\ fired.p1.thirty = 1 /\ beeps = {})
    /\ (/\ script = [phase |-> "first", first |-> 10, second |-> 0]
        /\ settings.increment = 10
        /\ baseTime("p1") = 40) =>
           (times.p1 = 30 /\ fired.p1.thirty = 1
              /\ beeps = {Call(ThirtyFrequency, "p1")})

\* the scripted game has been played to its end
C18_Witness ==
    /\ script = [phase |-> "second", first |-> 10, second |-> 10]
    /\ settings.increment = 10
    /\ baseTime("p1") = 40
    /\ op = Event("interval", "tick", "p1")
    /\ times = [p1 |-> 30, p2 |-> 50]
    /\ beepedRef.p1.thirty

\* C17: a switch that arrives when the active player's time has run out,
\* the press of Space that comes before the expiring tick is rendered
\* included, is ignored: no remaining time and not the active player change.
C17_NoSwitchOfDeadClock ==
    [][(/\ op'.fn = "handleSwitch"
        /\ hasStarted
        /\ activePlayer # NoPlayer
        /\ activeTime = 0) =>
           UNCHANGED <<times, activePlayer>>]_vars

\* C15: while isRunning stays true, switches included, the ticks applied
\* are as many as the whole seconds that have passed: the running time not
\* yet counted by a tick is less than a second, or is the second whose tick
\* is due.
C15_TicksMatchSeconds ==
    isRunning =>
        \/ owed < Resolution
        \/ timer.live /\ timer.phase = Resolution

C21_TimesGrowOnlyAtSwitch ==
    [][/\ times'.p1 >= 0
       /\ times'.p2 >= 0
       /\ \A p \in PlayerKey :
            (times'[p] > times[p] /\ op'.fn \notin {"resetClock", "handleSaveSetup"}) =>
                /\ op'.fn = "handleSwitch"
                /\ activePlayer = p
                /\ activePlayer' = other(p)
                /\ times'[p] = times[p] + settings.increment]_vars

\* player 2 moved with 29 seconds left and has 31 now
C21_Witness ==
    /\ op.fn = "handleSwitch"
    /\ activePlayer = "p1"
    /\ settings.increment = 2
    /\ times.p2 = 31
    /\ beepedRef.p2.thirty

C29_SameTimeCopiesPlayerOne ==
    [][op'.fn = "handleSaveSetup" =>
         \E form \in Forms :
            /\ settings'.sameTime = form.sameTime
            /\ baseTime("p1")' = toSeconds(clampNumber(form.p1Minutes, 0, MaxMinutes),
                                           clampNumber(form.p1Seconds, 0, MaxSeconds))
            /\ baseTime("p2")' = IF form.sameTime
                                 THEN baseTime("p1")'
                                 ELSE toSeconds(clampNumber(form.p2Minutes, 0, MaxMinutes),
                                                clampNumber(form.p2Seconds, 0, MaxSeconds))
            /\ times' = [p \in PlayerKey |-> baseTime(p)']
            /\ form.sameTime => times'.p1 = times'.p2]_vars

\* a form with same-time on was saved
C29_Witness ==
    /\ op.fn = "handleSaveSetup"
    /\ settings.sameTime
    /\ times = [p1 |-> 10, p2 |-> 10]
    /\ settings.p2Seconds = 10

\* C30: no step within a game takes a remaining time from above a threshold
\* to below it; a tick that leaves a player at a threshold leaves the flag
\* set, with the call made in that tick or the flag set before; and the
\* call is made in no step but a tick that leaves the player at the
\* threshold.
C30_ThresholdNotSkipped ==
    [][\A p \in PlayerKey : \A k \in Kinds :
         /\ (times[p] > Threshold(k) /\ times'[p] < Threshold(k)) =>
                op'.fn \in {"resetClock", "handleSaveSetup"}
         /\ (op'.fn = "tick" /\ op'.player = p /\ times'[p] = Threshold(k)) =>
                /\ beepedRef'[p][k]
                /\ beepedRef[p][k] \/ Call(Frequency(k), p) \in beeps'
         /\ Call(Frequency(k), p) \in beeps' =>
                (op'.fn = "tick" /\ times'[p] = Threshold(k))]_vars

\* player 2, raised above 30 by the increment, has come down through 30
C30_Witness ==
    /\ op = Event("interval", "tick", "p2")
    /\ times.p2 = 29
    /\ run.r = 32
    /\ beepedRef.p2.thirty
    /\ fired.p2.thirty = 1

\* C22: while a game has started the base times and the increment change
\* in no step but a Save & Start, which ends the game; a change of theme
\* never changes them.
C22_TimeControlFixedInGame ==
    [][/\ (hasStarted /\ settings' # settings) =>
            (op'.fn = "handleSaveSetup" /\ ~hasStarted')
       /\ op'.fn = "setTheme" => settings' = settings]_vars

\* the theme was changed on the setup screen opened in a started game
C22_Witness ==
    /\ op.fn = "setTheme"
    /\ hasStarted
    /\ theme = "dark"
    /\ settings.increment = 2
    /\ times.p2 = 31

\* C23 as stated: the increment is 0 while the user has set none: a switch
\* made while the increment is still the one that a load without a stored
\* increment gives credits nothing.
C23_UnsetIncrementIsZero ==
    [][(/\ op'.fn = "handleSwitch"
        /\ Active
        /\ settings.increment = defaultSettings.increment) =>
           times'[activePlayer] = times[activePlayer]]_vars

\* C23, amended: the increment is 5 while the user has set none: a load that
\* finds no stored settings, or stored settings without an increment field,
\* starts with increment 5, and a switch made while the increment is still
\* that one credits 5.
C23_UnsetIncrementIsFive ==
    [][/\ (op'.ui = "reload" /\ (~stored.present \/ "increment" \notin DOMAIN stored.value)) =>
            (settings'.increment = 5 /\ setup'.increment = 5)
       /\ (/\ op'.fn = "handleSwitch"
           /\ Active
           /\ settings.increment = defaultSettings.increment) =>
              times'[activePlayer] = times[activePlayer] + 5]_vars

\* settings without an increment field were found at the load and player 2
\* has moved on them
C23_Witness ==
    /\ op.fn = "handleSwitch"
    /\ stored.present
    /\ "increment" \notin DOMAIN stored.value
    /\ activePlayer = "p1"
    /\ times = [p1 |-> 3, p2 |-> 32]

\* C26: muting touches nothing of the clock: a toggle of mute leaves the
\* remaining times, activePlayer, hasStarted, isRunning, the threshold flags
\* and the interval with the time it has run as they are, and a tick that
\* crosses a threshold sets its flag whether muted or not.
C26_MuteLeavesClockAlone ==
    [][/\ op'.fn = "setMuted" =>
            UNCHANGED <<times, activePlayer, hasStarted, isRunning, beepedRef, timer>>
       /\ (op'.fn = "tick" /\ times'[op'.player] = ThirtySeconds) =>
            beepedRef'[op'.player].thirty
       /\ (op'.fn = "tick" /\ times'[op'.player] = TenSeconds) =>
            beepedRef'[op'.player].ten]_vars

\* C27: Save & Start leaves the saved time control under SETTINGS_KEY, it
\* stays there through every later event, and a page load then starts with
\* it as the settings and as the setup form, its base times as remaining
\* times, no game started, all flags false and the setup screen not shown.
C27_ReloadRestoresSaved ==
    [][/\ op'.fn = "handleSaveSetup" =>
            (stored'.present /\ stored'.value = settings')
       /\ (stored.present /\ stored.value = settings) =>
            (stored'.present /\ stored'.value = settings')
       /\ (op'.ui = "reload" /\ stored.present /\ stored.value = settings) =>
            /\ settings' = stored.value
            /\ setup' = stored.value
            /\ times' = [p1 |-> toSeconds(stored.value.p1Minutes, stored.value.p1Seconds),
                         p2 |-> toSeconds(stored.value.p2Minutes, stored.value.p2Seconds)]
            /\ Idle'
            /\ activePlayer' = NoPlayer
            /\ ~isRunning'
            /\ beepedRef' = emptyBeepState
            /\ ~showSetup']_vars

\* the page was loaded again in the middle of a game on a saved time control
C27_Witness ==
    /\ op.ui = "reload"
    /\ from = "Paused"
    /\ Idle
    /\ ~showSetup
    /\ settings.increment = 2
    /\ times = [p1 |-> 3, p2 |-> 30]
    /\ stored.present

\* C28: something comes to be under SETTINGS_KEY only by Save & Start, and
\* a page load shows the setup screen exactly when nothing is there: until
\* the first Save & Start every load shows the setup screen, whatever else
\* was done, a change of theme included.
C28_SetupUntilSaved ==
    [][/\ (~stored.present /\ stored'.present) => op'.fn = "handleSaveSetup"
       /\ op'.ui = "reload" => (showSetup' <=> ~stored.present)]_vars

\* C31: a running clock that gets no further command stops by expiry and by
\* nothing else: a tick stops the clock exactly when it brings the active
\* player's time to 0 and it changes neither activePlayer nor hasStarted;
\* left alone with r seconds the active player has r - n after n ticks, so
\* the clock is still running before the r-th tick and, the interval firing
\* as long as it is held, Expired is reached, with the r-th; while commands
\* go on, a switch made within increment ticks of the start of the turn
\* leaves its player no less time than at that start, so expiry can be put
\* off for ever.
C31_ExpiresOnlyByTicks ==
    /\ [][/\ op'.fn = "tick" =>
               /\ (isRunning' <=> times'[op'.player] > 0)
               /\ UNCHANGED <<activePlayer, hasStarted>>
          /\ (Unattended /\ Active) =>
               /\ op'.fn = "tick"
               /\ times'[activePlayer] = run.r - (run.n + 1)
               /\ (isRunning' <=> run.n + 1 < run.r)
          /\ (/\ op'.fn = "handleSwitch"
              /\ Active
              /\ activePlayer' # activePlayer
              /\ run.n <= settings.increment) =>
                 times'[activePlayer] >= run.r]_vars
    /\ (Unattended /\ Active) ~> (Unattended /\ Expired /\ run.n = run.r)

\* player 2 has gained time by a switch, and player 1, left alone with 10
\* seconds, has expired with the tenth tick
C31_Witness ==
    /\ Unattended
    /\ Expired
    /\ activePlayer = "p1"
    /\ run = [r |-> 10, n |-> 10]
    /\ times.p2 > baseTime("p2")

\* C32: before a game has started nothing of a game is left: whenever
\* hasStarted is false, no player is active, the clock is not running, both
\* remaining times are the base times of the saved time control and the
\* four threshold flags are false.
C32_IdleIsFresh ==
    ~hasStarted =>
        /\ activePlayer = NoPlayer
        /\ ~isRunning
        /\ times = [p1 |-> toSeconds(settings.p1Minutes, settings.p1Seconds),
                    p2 |-> toSeconds(settings.p2Minutes, settings.p2Seconds)]
        /\ beepedRef = emptyBeepState

\* a game of 0:10 against 0:30 that had expired has been reset
C32_Witness ==
    /\ ~hasStarted
    /\ op.fn = "resetClock"
    /\ from = "Expired"
    /\ times = [p1 |-> 10, p2 |-> 30]

\* C33: in a started game the player who is not active has no time left only
\* if that player's base time is 0 and that player has completed no
\* switch: the non-active player at 0 has base time 0; a completed switch
\* leaves the player who made it with time, and that time stays as it is
\* for as long as the player is not active; and when both base times are
\* above 0 a switch hands the turn to a player with time.
C33_NonActiveHasTime ==
    /\ [](IF hasStarted /\ activePlayer # NoPlayer
           THEN times[other(activePlayer)] = 0 => baseTime(other(activePlayer)) = 0
           ELSE TRUE)
    /\ [][/\ (op'.fn = "handleSwitch" /\ activePlayer' # activePlayer) =>
               /\ times'[activePlayer] > 0
               /\ (baseTime("p1") > 0 /\ baseTime("p2") > 0) =>
                      times'[activePlayer'] > 0
          /\ (hasStarted /\ hasStarted' /\ activePlayer' = activePlayer) =>
               times'[other(activePlayer)] = times[other(activePlayer)]]_vars

\* C34: every second of a game is accounted for.  A game starts with both
\* remaining times at the base times; from then on a tick takes 1 from the
\* active player who has time left (and nothing from one who has none), a
\* switch that goes through gives the increment to the player who was
\* active, and nothing else changes a remaining time until the next game;
\* so at every point remaining = base + increment * switches made - ticks
\* taken with time left.
C34_TimeAccounting ==
    [][\A P \in PlayerKey :
         times'[P] =
            IF op'.fn \in {"resetClock", "handleSaveSetup", "startFrom"}
            THEN (IF P = "p1"
                  THEN toSeconds(settings'.p1Minutes, settings'.p1Seconds)
                  ELSE toSeconds(settings'.p2Minutes, settings'.p2Seconds))
            ELSE IF op'.fn = "tick" /\ activePlayer = P /\ times[P] > 0
            THEN times[P] - 1
            ELSE IF op'.fn = "handleSwitch" /\ activePlayer = P /\ activePlayer' # P
            THEN times[P] + settings.increment
            ELSE times[P]]_vars

\* player 1, from 10 seconds with increment 2, has made a switch and is at 9
C34_Witness ==
    /\ op.fn = "handleSwitch"
    /\ activePlayer = "p2"
    /\ settings.increment = 2
    /\ toSeconds(settings.p1Minutes, settings.p1Seconds) = 10
    /\ times.p1 = 9

\* C35: opening the setup screen stops the clock and touches nothing else of
\* the game (remaining times, activePlayer, hasStarted, threshold flags,
\* saved time control); while the setup screen is shown no tick is applied
\* and Space changes nothing; and the setup screen is left only by Save &
\* Start, which leaves no game in progress, so the interrupted game is
\* never resumed.
C35_SetupInterruptsForGood ==
    [][/\ op'.fn = "openSetup" =>
            /\ ~isRunning'
            /\ showSetup'
            /\ UNCHANGED <<times, activePlayer, hasStarted, beepedRef, settings>>
       /\ showSetup =>
            /\ op'.fn # "tick"
            /\ op'.ui = "space" =>
                 UNCHANGED <<times, activePlayer, hasStarted, isRunning,
                             beepedRef, settings, setup, showSetup>>
            /\ ~showSetup' =>
                 /\ op'.fn = "handleSaveSetup"
                 /\ ~hasStarted'
                 /\ activePlayer' = NoPlayer]_vars

\* Space has been pressed on the setup screen, opened on a running game in
\* which time had been spent
C35_Witness ==
    /\ op.ui = "space"
    /\ showSetup
    /\ from = "Paused"
    /\ hasStarted
    /\ ~isRunning
    /\ times.p2 = 29

\* C36: the game-over condition of the clock screen (hasStarted and the
\* active player at 0) holds exactly in Expired, so the clock is not running
\* whenever it holds; and the primary button resets when it holds and
\* pauses or resumes when it does not.
C36_GameOverIsExpired ==
    /\ [](gameOver <=> Expired)
    /\ [](gameOver => ~isRunning)
    /\ [][op'.ui = "primary" =>
            op'.fn = (IF gameOver THEN "resetClock" ELSE "toggleRunning")]_vars

\* C37: whatever integers stand in the setup form, Save & Start brings the
\* minutes into 0..999, the seconds into 0..59 and the increment into
\* 0..999 (a value below the range to its lower end, one above to its upper
\* end, one within left as it is) before anything uses them, so right
\* after it each remaining time is in 0..59999 and the increment in 0..999.
C37_ConfigureClamps ==
    [][op'.fn = "handleSaveSetup" =>
         /\ settings'.p1Minutes =
               (IF setup.p1Minutes < 0 THEN 0
                ELSE IF setup.p1Minutes > 999 THEN 999 ELSE setup.p1Minutes)
         /\ settings'.p1Seconds =
               (IF setup.p1Seconds < 0 THEN 0
                ELSE IF setup.p1Seconds > 59 THEN 59 ELSE setup.p1Seconds)
         /\ settings'.increment =
               (IF setup.increment < 0 THEN 0
                ELSE IF setup.increment > 999 THEN 999 ELSE setup.increment)
         /\ settings'.p2Minutes \in 0..999
         /\ settings'.p2Seconds \in 0..59
         /\ settings'.increment \in 0..999
         /\ times'.p1 = settings'.p1Minutes * 60 + settings'.p1Seconds
         /\ times'.p2 = settings'.p2Minutes * 60 + settings'.p2Seconds
         /\ times'.p1 \in 0..59999
         /\ times'.p2 \in 0..59999]_vars

\* a form with player 1 above every limit, player 2 below and the increment
\* above has been saved
C37_Witness ==
    /\ op.fn = "handleSaveSetup"
    /\ times = [p1 |-> 59999, p2 |-> 0]
    /\ settings.increment = 999
    /\ ~showSetup

\* C38: the text on a clock face gives the remaining time back.  For each
\* player the text is two or three digits of minutes, a colon and two digits
\* of seconds; read as numbers, the seconds are under 60 and minutes * 60 +
\* seconds is the remaining time, and before a game has started the two
\* numbers are the minutes and the seconds of the saved time control.
C38_FormatTimeReadsBack ==
    \A P \in PlayerKey :
        LET text == formatTime(times[P])
            n == Len(text)
            Digit(c) == CHOOSE d \in 0..10 : d = 10 \/ DigitChars[d + 1] = c
            seconds == 10 * Digit(text[n - 1]) + Digit(text[n])
            minutes == IF n = 5
                       THEN 10 * Digit(text[1]) + Digit(text[2])
                       ELSE 100 * Digit(text[1]) + 10 * Digit(text[2]) + Digit(text[3])
        IN  /\ n \in {5, 6}
            /\ text[n - 2] = ":"
            /\ \A i \in (1..n) \ {n - 2} : \E d \in 1..10 : DigitChars[d] = text[i]
            /\ seconds < 60
            /\ minutes * 60 + seconds = times[P]
            /\ ~hasStarted =>
                 /\ minutes = (IF P = "p1" THEN settings.p1Minutes ELSE settings.p2Minutes)
                 /\ seconds = (IF P = "p1" THEN settings.p1Seconds ELSE settings.p2Seconds)

\* a game on 100:07 has been started and reset, and player 1's face shows
\* 100:07
C38_Witness ==
    /\ op.fn = "resetClock"
    /\ ~hasStarted
    /\ settings.p1Minutes = 100
    /\ settings.p1Seconds = 7
    /\ formatTime(times.p1) = <<"1", "0", "0", ":", "0", "7">>

====
